---- MODULE Spec2Model ----
(***************************************************************************)
(* Model of the prefetching pipeline of dataset.py: PrefetchGenerator (a   *)
(* worker thread filling a bounded queue.Queue), PrefetchDataLoader,       *)
(* CPUPrefetcher and CUDAPrefetcher (one batch of host-to-device           *)
(* lookahead on a copy stream).                                            *)
(***************************************************************************)
EXTENDS Integers, Sequences, FiniteSets, TLC

\* Bounds of the model.
MaxLen == 4      \* largest number of batches the underlying loader yields
MaxStreamLen == 2 \* the same, in the specification that runs the two streams
MaxCap == 2      \* largest num_data_prefetch_queue
MaxIter == 2     \* largest number of iter(dataloader) calls (construction + resets)
MaxFiles == 2    \* largest number of image files in a dataset directory
MaxScale == 2    \* largest upscale_factor

VARIABLES
    dataset,     \* the batches the underlying DataLoader iterator yields, in order
    failAt,      \* position at which the underlying iterator raises (0: never)
    capacity,    \* num_data_prefetch_queue
    kind,        \* which prefetcher wraps the loader: "CPU" or "CUDA"
    gens,        \* the PrefetchGenerator objects created so far, in creation order
    data,        \* self.data of the prefetcher: index in gens of its current iterator
    batch_data,  \* CUDAPrefetcher.batch_data, the staged batch
    local,       \* the local batch_data of CUDAPrefetcher.next
    pc,          \* position of the main (consumer) thread
    hist,        \* what the prefetcher's calls have done so far (returns and resets)
    last,        \* batch returned by CUDAPrefetcher.next that the caller has not used yet
    copyq,       \* transfers submitted to the copy stream and not completed
    copied,      \* batches whose host-to-device transfer has completed
    mainq,       \* work submitted to the main stream and not executed
    garbage,     \* a main-stream kernel read a batch whose transfer was incomplete
    cls,         \* the dataset class under construction or in use ("none": no dataset)
    mode,        \* TrainValidImageDataset.mode
    image_size,  \* TrainValidImageDataset.image_size, the crop size
    upscale_factor,       \* TestImageDataset.upscale_factor
    lr_image_file_names,  \* TrainValidImageDataset: the files of <image_dir>/lr
    hr_image_file_names,  \* TrainValidImageDataset: the files of <image_dir>/hr
    image_file_names,     \* TestImageDataset: the files of test_image_dir
    lr_datasets, \* the low-resolution images read into memory
    hr_datasets, \* the high-resolution images read into memory
    dpc,         \* position of the dataset: "reading", "ready", "failed"
    result       \* outcome of the last __init__ or __getitem__

\* The prefetching pipeline's variables, and the datasets' variables.
pfvars == <<dataset, failAt, capacity, kind, gens, data, batch_data, local, pc, hist,
            last, copyq, copied, mainq, garbage>>
dsvars == <<cls, mode, image_size, upscale_factor, lr_image_file_names,
            hr_image_file_names, image_file_names, lr_datasets, hr_datasets, dpc, result>>

vars == <<pfvars, dsvars>>

cfgvars == <<dataset, failAt, capacity, kind>>
streamvars == <<copyq, copied, mainq, garbage>>

----------------------------------------------------------------------------
\* Values.

\* Python's None. A batch is a record: v is its content (its position in the
\* loader), it is the iteration (generator) whose worker produced the object.
None == [v |-> 0, it |-> 0]
IsNone(x) == x.v = 0
ResetMark == [v |-> -1, it |-> 0]

Batch(i, g) == IF dataset[i] = 0 THEN None ELSE [v |-> dataset[i], it |-> g]

\* Input sequences: position i holds batch i, or None at one position.
Datasets ==
    UNION { { [i \in 1..n |-> IF i = k THEN 0 ELSE i] : k \in 0..n } : n \in 1..MaxLen }

----------------------------------------------------------------------------
\* queue.Queue(maxsize).

\* Mutant: full only once it holds more than maxsize entries.
QueueFullLate(q) == Len(q) > capacity
QueueFull(q) == Len(q) >= capacity
\* Mutant: a LIFO queue, the newest entry is the first one out.
QueuePutFront(q, x) == <<x>> \o q
QueuePut(q, x) == Append(q, x)
QueueEmpty(q) == q = <<>>
QueueGet(q) == Head(q)

\* PrefetchGenerator.__init__: an empty queue and a started worker thread.
NewGen == [queue |-> <<>>, pos |-> 1, wpc |-> "run", got |-> <<>>, stopped |-> FALSE]

\* PrefetchDataLoader.__iter__: a new generator over a new iteration of the loader.
Iter(gs) == Append(gs, NewGen)

\* PrefetchGenerator.__next__ on generator g, enabled when queue.get() can return.
CanNext(g) == ~QueueEmpty(gens[g].queue)
NextItem(g) == QueueGet(gens[g].queue)
AfterNext(g) ==
    LET x == NextItem(g) IN
    [gens EXCEPT ![g].queue = Tail(@),
                 ![g].got = IF IsNone(x) THEN @ ELSE Append(@, x),
                 ![g].stopped = @ \/ IsNone(x)]

----------------------------------------------------------------------------
\* No outcome yet.
NoResult == [op |-> "none", index |-> 0, err |-> "", sample |-> <<>>]

\* The pipeline runs over a loader whose dataset is not looked into.
NoDataset ==
    /\ cls = "none"
    /\ mode = ""
    /\ image_size = 0
    /\ upscale_factor = 0
    /\ lr_image_file_names = <<>>
    /\ hr_image_file_names = <<>>
    /\ image_file_names = <<>>
    /\ lr_datasets = <<>>
    /\ hr_datasets = <<>>
    /\ dpc = "none"
    /\ result = NoResult

Init ==
    /\ NoDataset
    /\ dataset \in Datasets
    /\ failAt \in 0..Len(dataset)
    /\ capacity \in 1..MaxCap
    /\ kind \in {"CPU", "CUDA"}
    /\ gens = Iter(<<>>)
    /\ data = 1
    /\ batch_data = None
    /\ local = None
    /\ pc = IF kind = "CUDA" THEN "init_preload" ELSE "idle"
    /\ hist = <<>>
    /\ last = None
    /\ copyq = <<>>
    /\ copied = {}
    /\ mainq = <<>>
    /\ garbage = FALSE

----------------------------------------------------------------------------
\* PrefetchGenerator.run, the worker thread of generator g.

\* The underlying iterator raises while the worker pulls its next item: the
\* exception leaves run() and the thread ends, with nothing put in the queue.
WorkerRaise(g) ==
    /\ gens[g].wpc = "run"
    /\ gens[g].pos = failAt
    /\ gens' = [gens EXCEPT ![g].wpc = "raised"]
    /\ UNCHANGED <<dsvars, cfgvars, data, batch_data, local, pc, hist, last, streamvars>>

\* Mutant: the worker leaves out the None items of its input.
WorkerPutSkipNone(g) ==
    /\ gens[g].wpc = "run"
    /\ gens[g].pos # failAt
    /\ gens[g].pos <= Len(dataset)
    /\ ~QueueFull(gens[g].queue)
    /\ gens' = [gens EXCEPT ![g].queue = IF IsNone(Batch(gens[g].pos, g)) THEN @
                                         ELSE QueuePut(@, Batch(gens[g].pos, g)),
                            ![g].pos = @ + 1]
    /\ UNCHANGED <<dsvars, cfgvars, data, batch_data, local, pc, hist, last, streamvars>>

\* One turn of `for item in self.generator: self.queue.put(item)`; put blocks
\* while the queue is full.
WorkerPut(g) ==
    /\ gens[g].wpc = "run"
    /\ gens[g].pos # failAt
    /\ gens[g].pos <= Len(dataset)
    /\ ~QueueFull(gens[g].queue)
    /\ gens' = [gens EXCEPT ![g].queue = QueuePut(@, Batch(gens[g].pos, g)),
                            ![g].pos = @ + 1]
    /\ UNCHANGED <<dsvars, cfgvars, data, batch_data, local, pc, hist, last, streamvars>>

\* Mutant: the worker puts the sentinel and keeps running (puts it again).
WorkerPutNoneAgain(g) ==
    /\ gens[g].wpc = "run"
    /\ gens[g].pos > Len(dataset)
    /\ ~QueueFull(gens[g].queue)
    /\ gens' = [gens EXCEPT ![g].queue = QueuePut(@, None)]
    /\ UNCHANGED <<dsvars, cfgvars, data, batch_data, local, pc, hist, last, streamvars>>

\* Mutant: the thread ends after the loop without putting the sentinel.
WorkerEndNoSentinel(g) ==
    /\ gens[g].wpc = "run"
    /\ gens[g].pos > Len(dataset)
    /\ gens' = [gens EXCEPT ![g].wpc = "done"]
    /\ UNCHANGED <<dsvars, cfgvars, data, batch_data, local, pc, hist, last, streamvars>>

\* The loop is over: self.queue.put(None), the end-of-stream sentinel, and the
\* thread ends.
WorkerPutNone(g) ==
    /\ gens[g].wpc = "run"
    /\ gens[g].pos > Len(dataset)
    /\ ~QueueFull(gens[g].queue)
    /\ gens' = [gens EXCEPT ![g].queue = QueuePut(@, None),
                            ![g].wpc = "done"]
    /\ UNCHANGED <<dsvars, cfgvars, data, batch_data, local, pc, hist, last, streamvars>>

----------------------------------------------------------------------------
\* CPUPrefetcher.

CpuNextCall ==
    /\ kind = "CPU"
    /\ pc = "idle"
    /\ pc' = "next"
    /\ UNCHANGED <<dsvars, cfgvars, gens, data, batch_data, local, hist, last, streamvars>>

\* return next(self.data), or None on StopIteration.
CpuNextReturn ==
    /\ kind = "CPU"
    /\ pc = "next"
    /\ CanNext(data)
    /\ gens' = AfterNext(data)
    /\ hist' = Append(hist, NextItem(data))
    /\ pc' = "idle"
    /\ UNCHANGED <<dsvars, cfgvars, data, batch_data, local, last, streamvars>>

CpuReset ==
    /\ kind = "CPU"
    /\ pc = "idle"
    /\ Len(gens) < MaxIter
    /\ gens' = Iter(gens)
    /\ data' = Len(gens) + 1
    /\ hist' = Append(hist, ResetMark)
    /\ UNCHANGED <<dsvars, cfgvars, batch_data, local, pc, last, streamvars>>

----------------------------------------------------------------------------
\* CUDAPrefetcher.

\* Everything submitted to the copy stream so far.
Submitted == copied \cup { copyq[i] : i \in 1..Len(copyq) }

\* Mutant: preload() stages a batch and at once the one after it.
PreloadTwice ==
    LET q == gens[data].queue IN
    /\ Len(q) >= 2
    /\ gens' = [gens EXCEPT ![data].queue = Tail(Tail(q)),
                            ![data].got = @ \o SelectSeq(SubSeq(q, 1, 2), LAMBDA x : ~IsNone(x)),
                            ![data].stopped = @ \/ IsNone(q[1]) \/ IsNone(q[2])]
    /\ batch_data' = q[2]
    /\ copyq' = copyq \o SelectSeq(SubSeq(q, 1, 2), LAMBDA x : ~IsNone(x))

\* preload(): take the next batch of self.data (None on StopIteration) and
\* submit its transfer to the copy stream.
Preload ==
    /\ CanNext(data)
    /\ gens' = AfterNext(data)
    /\ batch_data' = NextItem(data)
    /\ copyq' = IF IsNone(NextItem(data)) THEN copyq ELSE Append(copyq, NextItem(data))

\* Mutant: __init__ without its preload().
CudaInitNoPreload ==
    /\ kind = "CUDA"
    /\ pc = "init_preload"
    /\ pc' = "idle"
    /\ UNCHANGED <<dsvars, cfgvars, gens, data, batch_data, local, hist, last, streamvars>>

\* The preload() of __init__.
CudaInitPreload ==
    /\ kind = "CUDA"
    /\ pc = "init_preload"
    /\ Preload
    /\ pc' = "idle"
    /\ UNCHANGED <<dsvars, cfgvars, data, local, hist, last, copied, mainq, garbage>>

\* Mutant: next() without the wait_stream call.
NoWaitStream == <<>>
\* What next() submits to the main stream before it reads self.batch_data.
WaitStream == <<[op |-> "wait", need |-> Submitted, b |-> None]>>

\* next(): current_stream().wait_stream(self.stream); batch_data = self.batch_data.
CudaNextCall ==
    /\ kind = "CUDA"
    /\ pc = "idle"
    /\ mainq' = mainq \o WaitStream
    /\ local' = batch_data
    /\ pc' = "next_preload"
    /\ UNCHANGED <<dsvars, cfgvars, gens, data, batch_data, hist, last, copyq, copied, garbage>>

\* next(): self.preload(); return batch_data.
CudaNextPreload ==
    /\ kind = "CUDA"
    /\ pc = "next_preload"
    /\ Preload
    /\ hist' = Append(hist, local)
    /\ last' = local
    /\ pc' = "idle"
    /\ UNCHANGED <<dsvars, cfgvars, data, local, copied, mainq, garbage>>

\* reset(): self.data = iter(self.original_dataloader).
CudaResetCall ==
    /\ kind = "CUDA"
    /\ pc = "idle"
    /\ Len(gens) < MaxIter
    /\ gens' = Iter(gens)
    /\ data' = Len(gens) + 1
    /\ hist' = Append(hist, ResetMark)
    /\ pc' = "reset_preload"
    /\ UNCHANGED <<dsvars, cfgvars, batch_data, local, last, streamvars>>

\* Mutant: reset() without its preload(), the staged batch stays.
CudaResetNoPreload ==
    /\ kind = "CUDA"
    /\ pc = "reset_preload"
    /\ pc' = "idle"
    /\ UNCHANGED <<dsvars, cfgvars, gens, data, batch_data, local, hist, last, streamvars>>

\* reset(): self.preload().
CudaResetPreload ==
    /\ kind = "CUDA"
    /\ pc = "reset_preload"
    /\ Preload
    /\ pc' = "idle"
    /\ UNCHANGED <<dsvars, cfgvars, data, local, hist, last, copied, mainq, garbage>>

\* The caller launches its computation on the batch next() returned.
Compute ==
    /\ kind = "CUDA"
    /\ pc = "idle"
    /\ ~IsNone(last)
    /\ mainq' = Append(mainq, [op |-> "use", need |-> {}, b |-> last])
    /\ last' = None
    /\ UNCHANGED <<dsvars, cfgvars, gens, data, batch_data, local, pc, hist, copyq, copied, garbage>>

\* The copy stream completes its oldest transfer.
CopyStreamStep ==
    /\ copyq # <<>>
    /\ copied' = copied \cup {Head(copyq)}
    /\ copyq' = Tail(copyq)
    /\ UNCHANGED <<dsvars, cfgvars, gens, data, batch_data, local, pc, hist, last, mainq, garbage>>

\* The main stream passes a wait once the work it waits for has completed.
MainStreamWait ==
    /\ mainq # <<>>
    /\ Head(mainq).op = "wait"
    /\ Head(mainq).need \subseteq copied
    /\ mainq' = Tail(mainq)
    /\ UNCHANGED <<dsvars, cfgvars, gens, data, batch_data, local, pc, hist, last, copyq, copied, garbage>>

\* The main stream runs a kernel that reads a batch.
MainStreamUse ==
    /\ mainq # <<>>
    /\ Head(mainq).op = "use"
    /\ garbage' = (garbage \/ Head(mainq).b \notin copied)
    /\ mainq' = Tail(mainq)
    /\ UNCHANGED <<dsvars, cfgvars, gens, data, batch_data, local, pc, hist, last, copyq, copied>>

----------------------------------------------------------------------------
Next ==
    \/ \E g \in 1..Len(gens) : WorkerRaise(g)
    \/ \E g \in 1..Len(gens) : WorkerPut(g)
    \/ \E g \in 1..Len(gens) : WorkerPutNone(g)
    \/ CpuNextCall
    \/ CpuNextReturn
    \/ CpuReset
    \/ CudaInitPreload
    \/ CudaNextCall
    \/ CudaNextPreload
    \/ CudaResetCall
    \/ CudaResetPreload

Spec == Init /\ [][Next]_vars

----------------------------------------------------------------------------
\* The CUDAPrefetcher with its two streams running: a loader of non-None batches
\* whose iterator never raises (so no worker does), the caller computing on
\* what next() returns, transfers completing at any time.
InitStream ==
    /\ Init
    /\ kind = "CUDA"
    /\ failAt = 0
    /\ Len(dataset) <= MaxStreamLen
    /\ \A i \in 1..Len(dataset) : dataset[i] # 0

NextStream ==
    \/ \E g \in 1..Len(gens) : WorkerPut(g)
    \/ \E g \in 1..Len(gens) : WorkerPutNone(g)
    \/ CudaInitPreload
    \/ CudaNextCall
    \/ CudaNextPreload
    \/ CudaResetCall
    \/ CudaResetPreload
    \/ Compute
    \/ CopyStreamStep
    \/ MainStreamWait
    \/ MainStreamUse

SpecStream == InitStream /\ [][NextStream]_vars

----------------------------------------------------------------------------
\* A normal drain: a CPUPrefetcher over a loader of non-None batches whose
\* iterator never raises, a caller that calls next() until it has seen None.
\* Both threads are scheduled: a step that stays possible is taken.
InitDrain ==
    /\ Init
    /\ kind = "CPU"
    /\ failAt = 0
    /\ \A i \in 1..Len(dataset) : dataset[i] # 0

\* The caller calls next() as long as next() has not returned None.
DrainNextCall ==
    /\ \A i \in 1..Len(hist) : ~IsNone(hist[i])
    /\ CpuNextCall

WorkerStep == \E g \in 1..Len(gens) : WorkerPut(g) \/ WorkerPutNone(g)

NextDrain ==
    \/ \E g \in 1..Len(gens) : WorkerPut(g)
    \/ \E g \in 1..Len(gens) : WorkerPutNone(g)
    \/ DrainNextCall
    \/ CpuNextReturn

SpecDrain ==
    /\ InitDrain
    /\ [][NextDrain]_vars
    /\ WF_vars(WorkerStep)
    /\ WF_vars(DrainNextCall)
    /\ WF_vars(CpuNextReturn)

----------------------------------------------------------------------------
\* The datasets: TrainValidImageDataset and TestImageDataset.

\* File i of a directory decodes to an i x i image: small and large images
\* both occur. An image records the file it was read from, its directory
\* (resolution), its side, and what has been done to it.
Image(dir, i) ==
    [src |-> i, res |-> dir, dim |-> i, crop |-> "none", rot |-> 0,
     hflip |-> FALSE, vflip |-> FALSE, fmt |-> "array"]

Files(n) == [i \in 1..n |-> i]

\* Values of mode: the two supported ones and others.
Modes == {"Train", "Valid", "Test", "train"}

\* Indexes a caller passes to __getitem__.
Indexes == (0 - MaxFiles - 1)..(MaxFiles + 1)

\* Python list indexing: seq[i] raises IndexError outside -len..len-1.
PyIndexOk(seq, i) == (0 - Len(seq)) <= i /\ i < Len(seq)
PyAt(seq, i) == IF i >= 0 THEN seq[i + 1] ELSE seq[Len(seq) + i + 1]

\* imgproc.image2tensor.
Image2Tensor(img) == [img EXCEPT !.fmt = "tensor"]

\* imgproc.random_crop: fails when the size exceeds a side of either image.
CropTooLarge(pair, size) == size > pair[1].dim \/ size > pair[2].dim
Crop(img, how, size) == [img EXCEPT !.crop = how, !.dim = size]
RandomCrop(pair, size) == <<Crop(pair[1], "random", size), Crop(pair[2], "random", size)>>

\* imgproc.center_crop.
CenterCrop(pair, size) == <<Crop(pair[1], "center", size), Crop(pair[2], "center", size)>>

\* imgproc.random_rotate, random_horizontally_flip, random_vertically_flip,
\* with the angle and the coin flips they drew; the same for both images.
RandomRotate(pair, angle) == <<[pair[1] EXCEPT !.rot = angle], [pair[2] EXCEPT !.rot = angle]>>
RandomHorizontallyFlip(pair, f) == <<[pair[1] EXCEPT !.hflip = f], [pair[2] EXCEPT !.hflip = f]>>
RandomVerticallyFlip(pair, f) == <<[pair[1] EXCEPT !.vflip = f], [pair[2] EXCEPT !.vflip = f]>>

\* imgproc.imresize by the factor num/den (den # 0): the side is scaled and
\* rounded up.
Imresize(img, num, den) ==
    [img EXCEPT !.dim = (img.dim * num + den - 1) \div den]

Raised(op, index, err) == [op |-> op, index |-> index, err |-> err, sample |-> <<>>]
Yielded(op, index, pair) == [op |-> op, index |-> index, err |-> "", sample |-> pair]

\* Mutant: the low-resolution list is read for both images.
FetchPairLrTwice(index) == <<PyAt(lr_datasets, index), PyAt(lr_datasets, index)>>
\* __getitem__: self.lr_datasets[batch_index], self.hr_datasets[batch_index].
FetchPair(index) == <<PyAt(lr_datasets, index), PyAt(hr_datasets, index)>>

IsTrain(m) == m = "Train"
\* Mutant: `else:` in place of `elif self.mode == "Valid":`.
IsValidOrOther(m) == m # "Train"
IsValid(m) == m = "Valid"

\* TrainValidImageDataset.__getitem__(index), with the random draws of the
\* augmentation (angle, hf, vf) and whether center_crop raises on a size
\* larger than the image (cr).
TVGetItemResult(index, angle, hf, vf, cr) ==
    IF ~PyIndexOk(lr_datasets, index) \/ ~PyIndexOk(hr_datasets, index)
    THEN Raised("getitem", index, "IndexError")
    ELSE LET pair == FetchPair(index) IN
         IF IsTrain(mode)
         THEN LET cropped == IF CropTooLarge(pair, image_size)
                             THEN pair    \* except Exception: print(...)
                             ELSE RandomCrop(pair, image_size)
                  augmented == RandomVerticallyFlip(
                                   RandomHorizontallyFlip(RandomRotate(cropped, angle), hf), vf)
              IN Yielded("getitem", index,
                           <<Image2Tensor(augmented[1]), Image2Tensor(augmented[2])>>)
         ELSE IF IsValid(mode)
         THEN IF CropTooLarge(pair, image_size) /\ cr
              THEN Raised("getitem", index, "CropError")
              ELSE LET cropped == CenterCrop(pair, image_size)
                   IN Yielded("getitem", index,
                                <<Image2Tensor(cropped[1]), Image2Tensor(cropped[2])>>)
         ELSE Raised("getitem", index, "ValueError")

\* TrainValidImageDataset.__len__.
TVLen == Len(lr_image_file_names)

\* TestImageDataset.__getitem__(index).
TestGetItemResult(index) ==
    IF ~PyIndexOk(lr_datasets, index) \/ ~PyIndexOk(hr_datasets, index)
    THEN Raised("getitem", index, "IndexError")
    ELSE Yielded("getitem", index, FetchPair(index))

\* TestImageDataset.__len__.
TestLen == Len(image_file_names)

\* The pipeline is not running.
NoPipeline ==
    /\ dataset = <<>>
    /\ failAt = 0
    /\ capacity = 1
    /\ kind = "none"
    /\ gens = <<>>
    /\ data = 0
    /\ batch_data = None
    /\ local = None
    /\ pc = "none"
    /\ hist = <<>>
    /\ last = None
    /\ copyq = <<>>
    /\ copied = {}
    /\ mainq = <<>>
    /\ garbage = FALSE

\* __init__ of either dataset, up to its call of read_image_to_memory.
InitData ==
    /\ NoPipeline
    /\ lr_datasets = <<>>
    /\ hr_datasets = <<>>
    /\ dpc = "reading"
    /\ result = NoResult
    /\ \/ /\ cls = "TrainValid"
          /\ mode \in Modes
          /\ image_size \in 1..(MaxFiles + 1)
          /\ upscale_factor = 0
          /\ lr_image_file_names \in { Files(n) : n \in 0..MaxFiles }
          /\ hr_image_file_names \in { Files(n) : n \in 0..MaxFiles }
          /\ image_file_names = <<>>
       \/ /\ cls = "Test"
          /\ mode = ""
          /\ image_size = 0
          /\ upscale_factor \in 0..MaxScale
          /\ lr_image_file_names = <<>>
          /\ hr_image_file_names = <<>>
          /\ image_file_names \in { Files(n) : n \in 0..MaxFiles }

dscfg == <<cls, mode, image_size, upscale_factor, lr_image_file_names,
           hr_image_file_names, image_file_names>>

\* TrainValidImageDataset.read_image_to_memory: one turn of the first loop.
TVReadLr ==
    /\ cls = "TrainValid"
    /\ dpc = "reading"
    /\ Len(lr_datasets) < Len(lr_image_file_names)
    /\ lr_datasets' = Append(lr_datasets, Image("lr", lr_image_file_names[Len(lr_datasets) + 1]))
    /\ UNCHANGED <<pfvars, dscfg, hr_datasets, dpc, result>>

\* One turn of the second loop.
TVReadHr ==
    /\ cls = "TrainValid"
    /\ dpc = "reading"
    /\ Len(lr_datasets) = Len(lr_image_file_names)
    /\ Len(hr_datasets) < Len(hr_image_file_names)
    /\ hr_datasets' = Append(hr_datasets, Image("hr", hr_image_file_names[Len(hr_datasets) + 1]))
    /\ UNCHANGED <<pfvars, dscfg, lr_datasets, dpc, result>>

\* Both loops are over: __init__ returns.
TVConstructed ==
    /\ cls = "TrainValid"
    /\ dpc = "reading"
    /\ Len(lr_datasets) = Len(lr_image_file_names)
    /\ Len(hr_datasets) = Len(hr_image_file_names)
    /\ dpc' = "ready"
    /\ result' = Yielded("init", 0, <<>>)
    /\ UNCHANGED <<pfvars, dscfg, lr_datasets, hr_datasets>>

TVGetItem ==
    /\ cls = "TrainValid"
    /\ dpc = "ready"
    /\ \E index \in Indexes, angle \in {0, 90, 180, 270}, hf \in BOOLEAN, vf \in BOOLEAN,
          cr \in BOOLEAN :
           result' = TVGetItemResult(index, angle, hf, vf, cr)
    /\ UNCHANGED <<pfvars, dscfg, lr_datasets, hr_datasets, dpc>>

\* TestImageDataset.read_image_to_memory with upscale_factor = 0: the first
\* turn of the loop evaluates 1 / self.upscale_factor.
TestReadDivZero ==
    /\ cls = "Test"
    /\ dpc = "reading"
    /\ Len(hr_datasets) < Len(image_file_names)
    /\ upscale_factor = 0
    /\ dpc' = "failed"
    /\ result' = Raised("init", 0, "ZeroDivisionError")
    /\ UNCHANGED <<pfvars, dscfg, lr_datasets, hr_datasets>>

\* One turn of the loop with upscale_factor >= 1: the low-resolution image is
\* the image resized by 1/upscale_factor and back by upscale_factor.
TestRead ==
    /\ cls = "Test"
    /\ dpc = "reading"
    /\ Len(hr_datasets) < Len(image_file_names)
    /\ upscale_factor > 0
    /\ LET hr == Image("hr", image_file_names[Len(hr_datasets) + 1])
           lr == Imresize(Imresize([hr EXCEPT !.res = "lr"], 1, upscale_factor),
                          upscale_factor, 1)
       IN /\ lr_datasets' = Append(lr_datasets, Image2Tensor(lr))
          /\ hr_datasets' = Append(hr_datasets, Image2Tensor(hr))
    /\ UNCHANGED <<pfvars, dscfg, dpc, result>>

\* The loop is over: __init__ returns.
TestConstructed ==
    /\ cls = "Test"
    /\ dpc = "reading"
    /\ Len(hr_datasets) = Len(image_file_names)
    /\ dpc' = "ready"
    /\ result' = Yielded("init", 0, <<>>)
    /\ UNCHANGED <<pfvars, dscfg, lr_datasets, hr_datasets>>

TestGetItem ==
    /\ cls = "Test"
    /\ dpc = "ready"
    /\ \E index \in Indexes : result' = TestGetItemResult(index)
    /\ UNCHANGED <<pfvars, dscfg, lr_datasets, hr_datasets, dpc>>

NextData ==
    \/ TVReadLr
    \/ TVReadHr
    \/ TVConstructed
    \/ TVGetItem
    \/ TestReadDivZero
    \/ TestRead
    \/ TestConstructed
    \/ TestGetItem

SpecData == InitData /\ [][NextData]_vars

----------------------------------------------------------------------------
\* Vocabulary of the properties.

\* The input has no None item and the underlying iterator never raises.
CleanInput == failAt = 0 /\ \A i \in 1..Len(dataset) : dataset[i] # 0

\* The batches an iteration g of the loader yields, in order.
Items(g) == [i \in 1..Len(dataset) |-> Batch(i, g)]

IsPrefix(s, t) == Len(s) <= Len(t) /\ SubSeq(t, 1, Len(s)) = s

Gens == 1..Len(gens)

\* The worker thread of g has ended (normally, or by an exception).
WorkerOver(g) == gens[g].wpc \in {"done", "raised"}

\* The worker of g is inside queue.put, waiting for room.
BlockedOnPut(g) ==
    gens[g].wpc = "run" /\ gens[g].pos # failAt /\ QueueFull(gens[g].queue)

\* The main thread is inside a call of the prefetcher.
InCall == pc \in {"next", "init_preload", "next_preload", "reset_preload"}

\* The main thread waits in queue.get() on a queue nothing will be put in
\* again: its worker has ended, so the call never returns.
BlockedForever == InCall /\ QueueEmpty(gens[data].queue) /\ WorkerOver(data)

NotNone(x) == ~IsNone(x)
IsReset(x) == x.v = -1

\* Position in hist of the last reset() (0: none).
LastReset ==
    LET R == { i \in 1..Len(hist) : IsReset(hist[i]) }
    IN IF R = {} THEN 0 ELSE CHOOSE i \in R : \A j \in R : j <= i

\* What next() has returned since construction or the last reset().
Returns == SubSeq(hist, LastReset + 1, Len(hist))
Returned == SelectSeq(Returns, NotNone)

----------------------------------------------------------------------------
\* C1: for an input of non-None items that never raises, what __next__ has
\* returned from a generator is at every moment a prefix of its input
\* sequence (same order, nothing dropped, nothing duplicated), and it is the
\* whole sequence once __next__ has raised StopIteration.
C1_OrderPreserved ==
    CleanInput =>
        \A g \in Gens :
            /\ IsPrefix(gens[g].got, Items(g))
            /\ gens[g].stopped => gens[g].got = Items(g)

\* A drain of at least two items through a queue of capacity at least two
\* that has reached end-of-stream.
C1_Witness ==
    /\ CleanInput
    /\ Len(dataset) >= 2
    /\ capacity >= 2
    /\ gens[1].stopped
    /\ gens[1].got = Items(1)

\* C2: a queue never holds more than capacity entries (items plus sentinel), and
\* while a queue holds capacity entries its worker completes no put: its
\* position does not advance and it does not finish.
C2_QueueWithinCapacity == \A g \in Gens : Len(gens[g].queue) <= capacity

C2_PutWaits ==
    \A g \in Gens :
        Len(gens[g].queue) = capacity =>
            /\ gens'[g].pos = gens[g].pos
            /\ gens'[g].wpc # "done" \/ gens[g].wpc = "done"

C2_Bounded == []C2_QueueWithinCapacity /\ [][C2_PutWaits]_vars

\* A full queue of capacity at least two whose worker still has an item to put.
C2_Witness ==
    \E g \in Gens :
        /\ capacity >= 2
        /\ Len(gens[g].queue) = capacity
        /\ gens[g].wpc = "run"
        /\ gens[g].pos <= Len(dataset)
        /\ gens[g].pos # failAt

\* C3: over an input of non-None items that never raises, once a CPUPrefetcher
\* has returned the L items, every further call of next() returns: the main
\* thread is never inside next() waiting on an empty queue whose worker has
\* ended.
C3_EndIsIdempotent ==
    (kind = "CPU" /\ CleanInput /\ gens[data].got = Items(data)) => ~BlockedForever

\* C4: over an input of non-None items that never raises, the call of
\* CUDAPrefetcher.next() that has None to return (staging found no further
\* batch) returns it: it does not wait forever in its preload() on the
\* exhausted queue.
C4_NoneAfterEnd ==
    (kind = "CUDA" /\ CleanInput /\ pc = "next_preload" /\ IsNone(local)) =>
        ~(QueueEmpty(gens[data].queue) /\ WorkerOver(data))

\* C5: no kernel of the main stream reads a batch returned by next() before
\* the transfer of that batch on the copy stream has completed, whatever the
\* order of the steps of the two streams: none has, and each kernel still to
\* run on a batch in transfer is behind a wait for that transfer.
C5_TransferComplete ==
    /\ ~garbage
    /\ \A i \in 1..Len(mainq) :
           mainq[i].op = "use" =>
               \/ mainq[i].b \in copied
               \/ \E j \in 1..(i - 1) : mainq[j].op = "wait" /\ mainq[i].b \in mainq[j].need

\* The main stream has run a kernel on the second or a later thing next()
\* returned, a batch, and has nothing left to run.
C5_Witness ==
    /\ kind = "CUDA"
    /\ Len(hist) >= 2
    /\ NotNone(hist[Len(hist)])
    /\ ~IsReset(hist[Len(hist)])
    /\ IsNone(last)
    /\ mainq = <<>>
    /\ ~garbage

\* Number of batches the prefetcher has taken from its current iterator and
\* not returned to the caller.
Ahead == Len(gens[data].got) - Len(Returned)

\* C6: a CUDAPrefetcher holds at most one batch taken from the loader and not
\* yet returned; between calls that batch, if there is one, is batch_data, and
\* batch_data is None if there is none.
C6_SingleLookahead ==
    kind = "CUDA" =>
        /\ Ahead \in {0, 1}
        /\ pc = "idle" =>
              IF Ahead = 1
              THEN batch_data = gens[data].got[Len(gens[data].got)]
              ELSE IsNone(batch_data)

\* Between calls, after a reset() and a returned batch, one batch is staged.
C6_Witness ==
    /\ kind = "CUDA"
    /\ pc = "idle"
    /\ Len(gens) >= 2
    /\ Len(Returned) >= 1
    /\ Ahead = 1

\* The values of a sequence of batches.
Values(s) == [i \in 1..Len(s) |-> s[i].v]

\* The first drain is over: next() has returned None, and reset() was called
\* right after it.
DrainedThenReset ==
    /\ LastReset > 1
    /\ IsNone(hist[LastReset - 1])
    /\ \A i \in 1..(LastReset - 2) : NotNone(hist[i]) /\ ~IsReset(hist[i])

\* C7: for a fixed input of non-None items that never raises, with either
\* prefetcher: a drain reaches end-of-stream (a call of next() made before
\* end-of-stream was returned does return), and after drain, reset(), the
\* second drain returns the batches of the first, in order, then None.
C7_ResetReplays ==
    CleanInput =>
        /\ (InCall /\ \A i \in 1..Len(Returns) : NotNone(Returns[i])) => ~BlockedForever
        /\ DrainedThenReset =>
              /\ Values(SubSeq(hist, 1, LastReset - 2)) = dataset
              /\ IsPrefix(Values(Returned), dataset)
              /\ \A i \in 1..Len(Returns) :
                     IsNone(Returns[i]) => i = Len(dataset) + 1

\* C8: when the underlying iterator (of non-None items) raises in the worker
\* at item k, the consumer's call of next() after the k-1 items is not left
\* waiting: the main thread is never inside a call on the empty queue of a
\* worker that ended by an exception.
C8_FailureReported ==
    (\A i \in 1..Len(dataset) : dataset[i] # 0) =>
        ~(/\ InCall
          /\ gens[data].wpc = "raised"
          /\ Len(gens[data].got) = failAt - 1
          /\ QueueEmpty(gens[data].queue))

\* C9: over an input of non-None items that never raises, the worker of a
\* generator that reset() has replaced is never waiting in put on its full
\* queue (nothing reads that queue again, so it would wait forever).
C9_AbandonedWorkerEnds ==
    CleanInput => \A g \in Gens : g # data => ~BlockedOnPut(g)

\* Number of reset() calls among the first i entries of hist.
ResetsBefore(i) == Cardinality({ j \in 1..i : IsReset(hist[j]) })

\* C10: every batch next() returns was produced by the worker of the iteration
\* current at that call (the one started by the last reset() before it), the
\* first thing returned after a reset() is the first item of the new iteration,
\* and a queue only ever holds entries of its own worker.
C10_ResetStartsAfresh ==
    /\ \A i \in 1..Len(hist) :
           ~IsReset(hist[i]) =>
               /\ IsNone(hist[i]) \/ hist[i].it = ResetsBefore(i) + 1
               /\ (i > 1 /\ IsReset(hist[i - 1])) => hist[i] = Batch(1, ResetsBefore(i) + 1)
    /\ \A g \in Gens : \A i \in 1..Len(gens[g].queue) :
           IsNone(gens[g].queue[i]) \/ gens[g].queue[i].it = g

\* A reset() in mid-stream, with entries of the old iteration still queued,
\* followed by a next() that returned the first batch of the second iteration.
C10_Witness ==
    /\ LastReset > 1
    /\ NotNone(hist[LastReset - 1])
    /\ gens[1].queue # <<>>
    /\ Len(hist) > LastReset
    /\ hist[LastReset + 1] = [v |-> 1, it |-> 2]

----------------------------------------------------------------------------
\* The input has no None item (its iterator may raise).
NoNoneInput == \A i \in 1..Len(dataset) : dataset[i] # 0

\* Number of None entries of a sequence of queue entries.
NoneCount(q) == Cardinality({ i \in 1..Len(q) : IsNone(q[i]) })

\* Number of entries the consumer side has removed from the queue of g, for
\* an input without None items: the batches, and the sentinel once seen.
Removed(g) == Len(gens[g].got) + (IF gens[g].stopped THEN 1 ELSE 0)

\* C15: for an input of non-None items whose iterator never raises, every
\* worker puts its L items, then the sentinel exactly once, and nothing after
\* it: the entries put so far (removed or still queued) are the first pos-1
\* items in order, followed by one None exactly when the worker has ended,
\* and a worker that has ended has put all L items.
C15_OneSentinelLast ==
    CleanInput =>
        \A g \in Gens :
            LET q == gens[g].queue
                over == gens[g].wpc = "done"
            IN /\ NoneCount(q) + (IF gens[g].stopped THEN 1 ELSE 0) = (IF over THEN 1 ELSE 0)
               /\ \A i \in 1..Len(q) : IsNone(q[i]) => i = Len(q)
               /\ gens[g].got \o SelectSeq(q, NotNone) = SubSeq(Items(g), 1, gens[g].pos - 1)
               /\ over => gens[g].pos = Len(dataset) + 1

\* A worker has ended after at least two items; its sentinel has been taken.
C15_Witness ==
    /\ CleanInput
    /\ Len(dataset) >= 2
    /\ gens[1].wpc = "done"
    /\ gens[1].stopped
    /\ gens[1].queue = <<>>

\* C17: for an input without None items, a CUDAPrefetcher has taken from the
\* queue of its current iterator exactly one entry more than next() has
\* returned since construction or the last reset(), whenever it is between
\* calls or inside next() before its preload(); so the call returning batch k
\* returns only once entry k+1 (a batch, or the sentinel) has been dequeued.
C17_OneEntryAhead ==
    (kind = "CUDA" /\ NoNoneInput) =>
        /\ pc \in {"idle", "next_preload"} => Removed(data) = Len(Returns) + 1
        /\ pc \in {"init_preload", "reset_preload"} => Removed(data) = 0 /\ Returns = <<>>

\* next() has returned the last batch L >= 2: the sentinel has been dequeued.
C17_Witness ==
    /\ kind = "CUDA"
    /\ CleanInput
    /\ pc = "idle"
    /\ Len(dataset) >= 2
    /\ Len(Returns) = Len(dataset)
    /\ gens[data].stopped

\* C18: for an input of non-None items whose iterator never raises, the
\* sentinel needs a slot of its own: a worker has ended only if the consumer
\* side has removed at least L + 1 - N entries (so, with nothing removed, only
\* if L + 1 <= N), and when L + 1 <= N the worker is never waiting in put.
C18_SentinelTakesSlot ==
    CleanInput =>
        \A g \in Gens :
            /\ gens[g].wpc = "done" =>
                  /\ Removed(g) >= Len(dataset) + 1 - capacity
                  /\ Removed(g) + Len(gens[g].queue) = Len(dataset) + 1
            /\ Len(dataset) + 1 <= capacity => ~BlockedOnPut(g)

\* A worker that ended with nothing removed from its queue (L + 1 <= N).
C18_Witness ==
    \E g \in Gens :
        /\ CleanInput
        /\ gens[g].wpc = "done"
        /\ Removed(g) = 0
        /\ Len(gens[g].queue) = Len(dataset) + 1

\* Position of the None item of the input (0: none).
NoneAt ==
    IF NoNoneInput THEN 0
    ELSE CHOOSE k \in 1..Len(dataset) : dataset[k] = 0

\* C19: when the input holds a None item at position k, a CPUPrefetcher
\* returns items 1..k-1 and then None as the k-th return of the iteration,
\* as it does at end-of-stream: __next__ has raised StopIteration with only
\* k-1 items delivered.
C19_NoneItemEndsStream ==
    (kind = "CPU" /\ ~NoNoneInput) =>
        /\ \A i \in 1..Len(Returns) :
               /\ i < NoneAt => Returns[i] = Batch(i, data)
               /\ i = NoneAt => IsNone(Returns[i])
        /\ Len(Returns) = NoneAt =>
               /\ gens[data].stopped
               /\ gens[data].got = SubSeq(Items(data), 1, NoneAt - 1)

\* The k-th next() has returned None for a None item at 1 < k < L.
C19_Witness ==
    /\ kind = "CPU"
    /\ NoneAt > 1
    /\ NoneAt < Len(dataset)
    /\ Len(Returns) = NoneAt
    /\ IsNone(Returns[NoneAt])
    /\ gens[data].wpc = "run"

\* The drain is over: the caller has received the L items and then None, the
\* worker thread has ended and the queue is empty.
C16_Done ==
    /\ pc = "idle"
    /\ hist = Items(1) \o <<None>>
    /\ gens[1].wpc = "done"
    /\ gens[1].queue = <<>>

\* C16: in a normal drain with both threads scheduled, the state where the
\* caller has seen end-of-stream after exactly L items, the worker has ended
\* and the queue is empty is eventually reached, and before it some step is
\* always possible (no deadlock).
C16_DrainCompletes == <>C16_Done /\ [](C16_Done \/ ENABLED NextDrain)

\* A completed drain of at least two items through a queue smaller than L + 1.
C16_Witness ==
    /\ C16_Done
    /\ Len(dataset) >= 2
    /\ capacity < Len(dataset) + 1

----------------------------------------------------------------------------
\* Properties of the datasets.

Supported(m) == m \in {"Train", "Valid"}

\* Both lists hold an entry at this index.
IndexOk(index) == PyIndexOk(lr_datasets, index) /\ PyIndexOk(hr_datasets, index)

\* C11: a fetch from a TrainValidImageDataset whose mode is neither "Train"
\* nor "Valid" returns no sample and fails, with the unsupported-mode
\* ValueError whenever the index is one of the store (an index outside it
\* fails earlier, with IndexError); with mode "Train" or "Valid" no fetch
\* fails with that ValueError.
C11_ModeChecked ==
    (cls = "TrainValid" /\ result.op = "getitem") =>
        /\ ~Supported(mode) =>
              /\ result.sample = <<>>
              /\ result.err \in {"ValueError", "IndexError"}
              /\ IndexOk(result.index) => result.err = "ValueError"
        /\ Supported(mode) => result.err # "ValueError"

\* A fetch of a stored sample with an unsupported mode has failed.
C11_Witness ==
    /\ cls = "TrainValid"
    /\ result.op = "getitem"
    /\ ~Supported(mode)
    /\ IndexOk(result.index)
    /\ result.err = "ValueError"

\* len() of the dataset in use.
DatasetLen == IF cls = "TrainValid" THEN TVLen ELSE TestLen

\* The sample was made from the pair stored at this index.
FromPairAt(sample, index) ==
    /\ sample[1].src = PyAt(lr_datasets, index).src
    /\ sample[1].res = PyAt(lr_datasets, index).res
    /\ sample[2].src = PyAt(hr_datasets, index).src
    /\ sample[2].res = PyAt(hr_datasets, index).res

\* What C12 says of a constructed dataset: len() is the number of entries of
\* both lists, a fetch at an index >= len() fails with IndexError, and a
\* fetch at 0 <= index < len() does not, and what it returns is made from the
\* pair stored at that index.
IndexContract ==
    /\ DatasetLen = Len(lr_datasets)
    /\ DatasetLen = Len(hr_datasets)
    /\ result.op = "getitem" =>
          /\ result.index >= DatasetLen => result.err = "IndexError"
          /\ (0 <= result.index /\ result.index < DatasetLen) =>
                /\ result.err # "IndexError"
                /\ result.err = "" => FromPairAt(result.sample, result.index)

\* C12 as stated: the index contract holds of every constructed dataset.
C12_Original == dpc = "ready" => IndexContract

\* C12, amended: the index contract holds of every constructed
\* TestImageDataset, and of every constructed TrainValidImageDataset whose lr
\* and hr directories hold the same number of files.
C12_IndexContract ==
    (dpc = "ready" /\ Len(lr_image_file_names) = Len(hr_image_file_names)) => IndexContract

\* A fetch at the last index of a TrainValidImageDataset of two or more
\* samples has returned a sample.
C12_Witness ==
    /\ cls = "TrainValid"
    /\ dpc = "ready"
    /\ Len(lr_image_file_names) = Len(hr_image_file_names)
    /\ DatasetLen >= 2
    /\ result.op = "getitem"
    /\ result.index = DatasetLen - 1
    /\ result.err = ""

\* C13: in mode "Train", a fetch of a stored pair for which random_crop fails
\* (crop size larger than a side) fails with the crop error and returns no
\* sample.
C13_CropFailureSurfaces ==
    (/\ cls = "TrainValid"
     /\ mode = "Train"
     /\ result.op = "getitem"
     /\ IndexOk(result.index)
     /\ CropTooLarge(FetchPair(result.index), image_size)) =>
        /\ result.err = "CropError"
        /\ result.sample = <<>>

\* C14 (for upscale_factor >= 0; a negative factor is handed to imresize
\* unchecked): the construction of a TestImageDataset with upscale_factor < 1
\* fails, whatever the error, and adds no sample to the store; with
\* upscale_factor >= 1 it does not fail.
C14_ScaleValidated ==
    cls = "Test" =>
        /\ upscale_factor < 1 =>
              /\ dpc # "ready"
              /\ lr_datasets = <<>> /\ hr_datasets = <<>>
        /\ upscale_factor >= 1 => dpc # "failed"

====
